---- MODULE Spec2Model ----
(***************************************************************************)
(* The keystore of core/services/keystore/master.go: the keyManager's      *)
(* guarded state {keyRing, keyStates, password}, the encrypted key ring    *)
(* and the key-state rows in the database, and the operations Unlock,      *)
(* save, safeAddKey, safeRemoveKey and Migrate.                            *)
(*                                                                         *)
(* Every operation runs with the keyManager's mutex held from its first    *)
(* to its last statement, so each is one atomic action here.  The ORM, the *)
(* key ring's Encrypt/Decrypt and the facades' legacy readers are not part *)
(* of master.go; they are modelled from their contract in the design       *)
(* document (section 6).                                                   *)
(*                                                                         *)
(* The transactional executor of core/services/postgres/sqlx.go,           *)
(* SqlxTransaction, is modelled next to it with a database of its own: the *)
(* durable rows, one enclosing transaction a caller owns, and a queryer of *)
(* an unknown type (a test's mock).  sqlxTransactionQ is not part of       *)
(* sqlx.go and is modelled from the executor's contract (sections 5, 6).   *)
(*                                                                         *)
(* The keyManager's lock (a sync.RWMutex) is modelled in a specification   *)
(* of its own, SpecLock, in which callers and a reader run concurrently    *)
(* and every mutating call is split at the points where another goroutine  *)
(* could look at the guarded state: taking the lock, the change of the     *)
(* ring in memory, and the store round trip with the return.               *)
(*                                                                         *)
(* The peerstore wrapper of core/services/offchainreporting/peerstore.go   *)
(* (Start, dbLoop, Close, WriteToDB) is the specification SpecPstore.      *)
(*                                                                         *)
(* The bridges ORM of core/bridges/orm.go is the specification             *)
(* SpecBridges: every statement of a call is recorded with the handle it   *)
(* is executed against, the transaction's or the connection pool's.        *)
(***************************************************************************)
EXTENDS Integers, Sequences, FiniteSets, TLC

\* ------------------------------------------------------------- bounds
\* Eth keys have ids 1..NumEthIds; every other family has the single id 1.
NumEthIds == 2
\* Key material: a key is (family, id, val); two keys with the same id and a
\* different val are two different values stored under one map index.
NumVals == 2

\* The calls made on one key manager in a run of the model.
MaxCalls == 3

\* The rows a function run by SqlxTransaction may write are 1..NumWrites.
NumWrites == 2

\* The peer addresses the peerstore may hold are 1..NumAddrs.
NumAddrs == 2

\* The names of bridge types and of external initiators are 1..NumNames.
NumNames == 2

\* ------------------------------------------------------------- values
\* Go's nil error.
Nil == "nil"

KnownFamilies == {"CSA", "Eth", "OCR", "P2P", "VRF"}
EthIds == 1 .. NumEthIds
Vals == 1 .. NumVals
IdsOf(fam) == IF fam = "Eth" THEN EthIds ELSE {1}

\* The keys callers hand to safeAddKey/safeRemoveKey: Eth and CSA keys of any
\* id and material.  OCR, P2P and VRF keys enter the ring through Migrate.
CallerFamilies == {"Eth", "CSA"}
Keys == UNION {[fam : {f}, id : IdsOf(f), val : Vals] : f \in CallerFamilies}
\* A value implementing Key that is none of the five KeyV2 types.
ForeignKey == [fam |-> "Unknown", id |-> 1, val |-> 1]

Passwords == {"", "pw1", "pw2"}

\* A Go map[string]KeyV2: a function from the ids present to the values.
EmptyMap == [i \in {} |-> 0]
MapSetKeepsEntry(m, id, v) ==
  [i \in (DOMAIN m) \cup {id} |-> IF i \in DOMAIN m THEN m[i] ELSE v]
MapSet(m, id, v) == [i \in (DOMAIN m) \cup {id} |-> IF i = id THEN v ELSE m[i]]
MapDelete(m, id) == [i \in (DOMAIN m) \ {id} |-> m[i]]

\* keyRing: one map per family.  alloc = FALSE is the zero value of the
\* struct, whose five maps are nil (reads and deletes work, an assignment panics).
NilKeyRing ==
  [alloc |-> FALSE, CSA |-> EmptyMap, Eth |-> EmptyMap, OCR |-> EmptyMap,
   P2P |-> EmptyMap, VRF |-> EmptyMap]
newKeyRing == [NilKeyRing EXCEPT !.alloc = TRUE]
NilKeyStates == [loaded |-> FALSE, ids |-> {}]

\* The keys of a ring, whatever the allocation of its maps.
Contents(kr) == [f \in KnownFamilies |-> kr[f]]
IdsOfRing(kr) == [f \in KnownFamilies |-> DOMAIN kr[f]]

\* ------------------------------------------------------------- state
VARIABLES
  keyRing,    \* keyManager.keyRing
  keyStates,  \* keyManager.keyStates
  password,   \* keyManager.password ("" = locked)
  store,      \* the database: the encrypted_key_rings row and the eth key-state rows
  legacy,     \* the legacy (V1) key tables Migrate reads
  last,       \* the last call: its name, arguments, returned error, and the store calls it made
  ncalls,     \* the number of calls made so far
  AllowUnknownQueryerTypeInTransaction,  \* the package variable of sqlx.go
  durable,    \* the rows committed to the database SqlxTransaction works on
  outerTx,    \* the enclosing transaction (*sqlx.Tx) a caller owns: open or not, and its writes
  mock,       \* the writes made against the queryer of unknown type
  txlast,     \* the last step on that database: a SqlxTransaction call or the owner's begin/commit/rollback
  mu,         \* keyManager.lock: the goroutine holding the write lock, those holding a read lock
  pc,         \* where each goroutine calling the keystore is
  job,        \* the call each caller is making, and its outcome once computed
  ret,        \* what the last call of each caller returned
  seen,       \* what the reader has read under its read lock
  once,       \* Pstorewrapper's StartStopOnce state
  ctxDone,    \* Pstorewrapper.ctx is cancelled
  chDone,     \* Pstorewrapper.chDone is closed
  loop,       \* where the dbLoop goroutine is
  closer,     \* where the goroutine calling Close is
  pstoreClosed,  \* the underlying Peerstore is closed
  peers,      \* the addresses in the Peerstore
  p2pRows,    \* the rows of the table p2p_peers
  pslast,     \* the last call on the wrapper and its error
  bridge_types,         \* the committed rows of the table bridge_types (their names)
  external_initiators,  \* the committed rows of the table external_initiators
  blast       \* the last call on the bridges ORM: its statements, what it returned

ksVars == <<keyRing, keyStates, password, store, legacy, last, ncalls>>
txVars == <<AllowUnknownQueryerTypeInTransaction, durable, outerTx, mock, txlast>>
lockVars == <<mu, pc, job, ret, seen>>
psVars == <<once, ctxDone, chDone, loop, closer, pstoreClosed, peers, p2pRows, pslast>>
brVars == <<bridge_types, external_initiators, blast>>
vars == <<keyRing, keyStates, password, store, legacy, last, ncalls,
          AllowUnknownQueryerTypeInTransaction, durable, outerTx, mock, txlast,
          mu, pc, job, ret, seen,
          once, ctxDone, chDone, loop, closer, pstoreClosed, peers, p2pRows, pslast,
          bridge_types, external_initiators, blast>>

\* ------------------------------------------------------------- the ORM and the envelope
NoBlob == [present |-> FALSE, pw |-> "", maps |-> Contents(NilKeyRing)]

\* keyRing.Encrypt: the ciphertext of the whole ring under the password.
Encrypt(kr, pw) == [present |-> TRUE, pw |-> pw, maps |-> Contents(kr)]

\* encryptedKeyRing.Decrypt: the ring, or an error when the password is not
\* the one the blob was encrypted under.
Decrypt(ekr, pw) ==
  IF ekr.pw # pw
  THEN [err |-> "DecryptionError", kr |-> NilKeyRing]
  ELSE [err |-> Nil,
        kr |-> [alloc |-> TRUE, CSA |-> ekr.maps["CSA"], Eth |-> ekr.maps["Eth"],
                OCR |-> ekr.maps["OCR"], P2P |-> ekr.maps["P2P"], VRF |-> ekr.maps["VRF"]]]

\* ksORM.getEncryptedKeyRing
getEncryptedKeyRing(st, fail) ==
  IF fail = "get" THEN [err |-> "PersistenceError", ekr |-> NoBlob]
  ELSE IF ~st.blob.present THEN [err |-> "NotFound", ekr |-> NoBlob]
  ELSE [err |-> Nil, ekr |-> st.blob]

\* ksORM.loadKeyStates
loadKeyStates(st, fail) ==
  IF fail = "load" THEN [err |-> "PersistenceError", ks |-> NilKeyStates]
  ELSE [err |-> Nil, ks |-> [loaded |-> TRUE, ids |-> st.rows]]

\* keyStates.validate: every key state references a key of the Eth map.
validate(ks, kr) ==
  IF ks.ids \subseteq DOMAIN kr.Eth THEN Nil ELSE "ValidationError"

\* An extra write of a save: the insert or the delete of one key-state row.
StateInsert(id) == [op |-> "insert", id |-> id]
StateDelete(id) == [op |-> "delete", id |-> id]

RECURSIVE ApplyCallbacks(_, _)
ApplyCallbacks(rows, cbs) ==
  IF cbs = <<>> THEN rows
  ELSE ApplyCallbacks(IF Head(cbs).op = "insert" THEN rows \cup {Head(cbs).id}
                      ELSE rows \ {Head(cbs).id},
                      Tail(cbs))

\* ksORM.saveEncryptedKeyRing: the blob and every extra write in one
\* transaction, all or nothing.
saveEncryptedKeyRing(st, ekb, cbs, fail) ==
  IF fail = "blob" \/ (fail = "extra" /\ cbs # <<>>)
  THEN [err |-> "PersistenceError", store |-> st]
  ELSE [err |-> Nil, store |-> [blob |-> ekb, rows |-> ApplyCallbacks(st.rows, cbs)]]

\* ------------------------------------------------------------- keyManager
\* What a call leaves behind: the guarded state, the store, the returned
\* error and the store calls it made, in order.
Result(kr, ks, pw, st, err, log) ==
  [keyRing |-> kr, keyStates |-> ks, password |-> pw, store |-> st, err |-> err, log |-> log]

\* keyManager.isLocked
NeverLocked(pw) == FALSE
isLocked(pw) == pw = ""

\* Unlock's test for an earlier unlock.
UnlockNeverRechecks(pw) == FALSE
AlreadyUnlocked(pw) == pw # ""

\* What Unlock returns when a password is already set.
RepeatedUnlockAccepts(pw, p) == Nil
RepeatedUnlock(pw, p) == IF p # pw THEN "PasswordMismatch" ELSE Nil

\* The password Unlock caches after a first unlock that passed every step.
CachedPassword(p) == p

\* The password field while a first Unlock is still loading and validating:
\* it is assigned last, so it is the old one.
PasswordCachedEarly(pw, p) == p
PasswordBeforeCommit(pw, p) == pw

\* Unlock's validation of the loaded key states against the decrypted ring.
ValidationSkipped(ks, kr) == Nil
Validated(ks, kr) == validate(ks, kr)

\* keyManager.Unlock(p); fail names the store call made to fail, if any.
Unlock(kr, ks, pw, st, p, fail) ==
  IF AlreadyUnlocked(pw)
  THEN Result(kr, ks, pw, st, RepeatedUnlock(pw, p), <<>>)
  ELSE
    LET got == getEncryptedKeyRing(st, fail) IN
    IF got.err # Nil
    THEN Result(kr, ks, pw, st, got.err, <<"getEncryptedKeyRing">>)
    ELSE
      LET dec == Decrypt(got.ekr, p) IN
      IF dec.err # Nil
      THEN Result(kr, ks, pw, st, dec.err, <<"getEncryptedKeyRing">>)
      ELSE
        \* km.keyRing = kr is assigned here, before the key states are loaded
        LET loaded == loadKeyStates(st, fail)
            calls == <<"getEncryptedKeyRing", "loadKeyStates">>
        IN
        IF loaded.err # Nil
        THEN Result(dec.kr, ks, PasswordBeforeCommit(pw, p), st, loaded.err, calls)
        ELSE IF Validated(loaded.ks, dec.kr) # Nil
        THEN Result(dec.kr, ks, PasswordBeforeCommit(pw, p), st, Validated(loaded.ks, dec.kr), calls)
        ELSE Result(dec.kr, loaded.ks, CachedPassword(p), st, Nil, calls)

\* keyManager.save: encrypts the whole ring under the cached password and
\* hands the blob and the callbacks to the ORM.
\* The entry a save leaves in the call log: the store call, with or without
\* callbacks (extra writes).
SaveCall(cbs) ==
  IF cbs = <<>> THEN "saveEncryptedKeyRing" ELSE "saveEncryptedKeyRing+callbacks"

\* The ring save encrypts: km.keyRing, all of it.
SavedRingWithoutCSA(kr) == [kr EXCEPT !.CSA = EmptyMap]
SavedRing(kr) == kr

\* (A save that calls the store again when the call failed.)
saveRetries(kr, pw, st, cbs, fail) ==
  IF fail = "encrypt"
  THEN [err |-> "EncryptError", store |-> st, log |-> <<>>]
  ELSE LET w == saveEncryptedKeyRing(st, Encrypt(SavedRing(kr), pw), cbs, fail)
           again == saveEncryptedKeyRing(st, Encrypt(SavedRing(kr), pw), cbs, "none")
       IN IF w.err = Nil
          THEN [err |-> Nil, store |-> w.store, log |-> <<SaveCall(cbs)>>]
          ELSE [err |-> again.err, store |-> again.store, log |-> <<SaveCall(cbs), SaveCall(cbs)>>]

save(kr, pw, st, cbs, fail) ==
  IF fail = "encrypt"
  THEN [err |-> "EncryptError", store |-> st, log |-> <<>>]
  ELSE LET w == saveEncryptedKeyRing(st, Encrypt(SavedRing(kr), pw), cbs, fail) IN
       [err |-> w.err, store |-> w.store, log |-> <<SaveCall(cbs)>>]

\* getFieldNameForKey
getFieldNameDefaultsToCSA(key) ==
  [name |-> IF key.fam \in KnownFamilies THEN key.fam ELSE "CSA", err |-> Nil]
getFieldNameForKey(key) ==
  IF key.fam \in KnownFamilies
  THEN [name |-> key.fam, err |-> Nil]
  ELSE [name |-> "", err |-> "UnknownKeyFamily"]

\* safeAddKey's undo after a failed save: the map index is deleted.
AddUndo(m, id) == MapDelete(m, id)

\* safeRemoveKey's undo after a failed save: the key passed in is stored.
RemoveUndo(m, key) == MapSet(m, key.id, key.val)

\* The callbacks safeAddKey hands on to save.
CallbacksDropped(cbs) == <<>>
CallbacksOfAdd(cbs) == cbs

\* keyManager.safeAddKey(key, callbacks...)
safeAddKey(kr, ks, pw, st, key, cbs, fail) ==
  LET f == getFieldNameForKey(key) IN
  IF f.err # Nil THEN Result(kr, ks, pw, st, f.err, <<>>)
  ELSE IF ~kr.alloc
  THEN \* SetMapIndex on a nil map: "assignment to entry in nil map"
       Result(kr, ks, pw, st, "panic", <<>>)
  ELSE
    LET added == [kr EXCEPT ![f.name] = MapSet(@, key.id, key.val)]
        s == save(added, pw, st, CallbacksOfAdd(cbs), fail)
    IN
    IF s.err # Nil
    THEN Result([added EXCEPT ![f.name] = AddUndo(@, key.id)], ks, pw, s.store, s.err, s.log)
    ELSE Result(added, ks, pw, s.store, Nil, s.log)

\* keyManager.safeRemoveKey(key, callbacks...)
safeRemoveKey(kr, ks, pw, st, key, cbs, fail) ==
  LET f == getFieldNameForKey(key) IN
  IF f.err # Nil THEN Result(kr, ks, pw, st, f.err, <<>>)
  ELSE
    \* deleting from a nil map is a no-op
    LET removed == [kr EXCEPT ![f.name] = MapDelete(@, key.id)]
        s == save(removed, pw, st, cbs, fail)
    IN
    IF s.err = Nil THEN Result(removed, ks, pw, s.store, Nil, s.log)
    ELSE IF ~kr.alloc
    THEN \* the undo assigns to a nil map
         Result(kr, ks, pw, s.store, "panic", s.log)
    ELSE Result([removed EXCEPT ![f.name] = RemoveUndo(@, key)], ks, pw, s.store, s.err, s.log)

\* ------------------------------------------------------------- Migrate
\* The families Migrate merges in memory before its first save, in the order
\* of the code.
BulkFamiliesReordered == <<"CSA", "P2P", "OCR", "VRF">>
BulkFamilies == <<"CSA", "OCR", "P2P", "VRF">>
MigrateFamilies == {"CSA", "OCR", "P2P", "VRF", "Eth"}

FetchCall(fam) ==
  [CSA |-> "csa.GetV1KeysAsV2", OCR |-> "ocr.GetV1KeysAsV2", P2P |-> "p2p.GetV1KeysAsV2",
   VRF |-> "vrf.GetV1KeysAsV2", Eth |-> "eth.GetV1KeysAsV2"][fam]

\* <family>.GetV1KeysAsV2: the family's legacy keys (a map id -> val), or an error.
GetV1KeysAsV2(lg, fam, fetchFail) ==
  IF fetchFail = fam
  THEN [err |-> "LegacyFetchError", keys |-> EmptyMap]
  ELSE [err |-> Nil, keys |-> lg[fam]]

\* "if err != nil { return err }": Migrate returns at an error ...
NeverHalts(err) == FALSE
Halts(err) == err # Nil
\* ... and what it returns is the error of the step (a family's fetch, the
\* save of the merged families, an Eth key's add or save), as it is.
MigrateErrorWrapped(step, err) == "MigrationError"
MigrateError(step, err) == err

\* The loop over a family's legacy keys: a key whose id exists is skipped,
\* any other is stored in the map.
MergeLegacyOverwrites(m, keys) ==
  [i \in (DOMAIN m) \cup (DOMAIN keys) |-> IF i \in DOMAIN keys THEN keys[i] ELSE m[i]]
MergeLegacy(m, keys) ==
  [i \in (DOMAIN m) \cup (DOMAIN keys) |-> IF i \in DOMAIN m THEN m[i] ELSE keys[i]]

RECURSIVE MigrateBulk(_, _, _, _, _)
MigrateBulk(kr, lg, i, fetchFail, log) ==
  IF i > Len(BulkFamilies) THEN [keyRing |-> kr, err |-> Nil, log |-> log]
  ELSE
    LET fam == BulkFamilies[i]
        got == GetV1KeysAsV2(lg, fam, fetchFail)
        log2 == Append(log, FetchCall(fam))
    IN
    IF Halts(got.err) THEN [keyRing |-> kr, err |-> MigrateError(fam, got.err), log |-> log2]
    ELSE MigrateBulk([kr EXCEPT ![fam] = MergeLegacy(@, got.keys)], lg, i + 1, fetchFail, log2)

\* The outcome of the n-th save of a Migrate run, of which the failAt-th fails.
SaveFail(n, failAt) == IF n = failAt THEN "blob" ELSE "none"
MaxMigrateSaves == 1 + 2 * NumEthIds

\* eth.addEthKeyWithState: safeAddKey with the key's state row as the extra write.
addEthKeyWithState(kr, ks, pw, st, key, fail) ==
  safeAddKey(kr, ks, pw, st, key, <<StateInsert(key.id)>>, fail)

\* One iteration of Migrate's loop over the legacy Eth keys. r is the run so
\* far: the ring, the store, the error, the store calls and the saves issued.
\* A key whose id is in the Eth map is passed over (continue).
ExistingEthKeyFails(r) == [r EXCEPT !.err = "KeyExists"]
ExistingEthKey(r) == r
MigrateEthKey(r, ks, pw, key, failAt) ==
  IF key.id \in DOMAIN r.keyRing.Eth THEN ExistingEthKey(r)
  ELSE
    LET a == addEthKeyWithState(r.keyRing, ks, pw, r.store, key, SaveFail(r.saves + 1, failAt)) IN
    IF Halts(a.err)
    THEN [keyRing |-> a.keyRing, store |-> a.store, err |-> MigrateError("Eth", a.err),
          log |-> r.log \o a.log, saves |-> r.saves + 1]
    ELSE
      LET s == save(a.keyRing, pw, a.store, <<>>, SaveFail(r.saves + 2, failAt)) IN
      [keyRing |-> a.keyRing, store |-> s.store,
       err |-> IF Halts(s.err) THEN MigrateError("Eth", s.err) ELSE Nil,
       log |-> r.log \o a.log \o s.log, saves |-> r.saves + 2]

\* The loop over the legacy Eth keys, in the order of their ids; it returns
\* at the first error.
RECURSIVE MigrateEth(_, _, _, _, _, _)
MigrateEth(r, ks, pw, keys, id, failAt) ==
  IF id > NumEthIds \/ Halts(r.err) THEN r
  ELSE IF id \notin DOMAIN keys THEN MigrateEth(r, ks, pw, keys, id + 1, failAt)
  ELSE MigrateEth(MigrateEthKey(r, ks, pw, [fam |-> "Eth", id |-> id, val |-> keys[id]], failAt),
                  ks, pw, keys, id + 1, failAt)

\* master.Migrate; fetchFail names the family whose legacy fetch fails, if
\* any, and failAt the save of this run that fails (0: none).
Migrate(kr, ks, pw, st, lg, fetchFail, failAt) ==
  IF isLocked(pw) THEN Result(kr, ks, pw, st, "ErrLocked", <<>>)
  ELSE
    LET b == MigrateBulk(kr, lg, 1, fetchFail, <<>>) IN
    IF Halts(b.err) THEN Result(b.keyRing, ks, pw, st, b.err, b.log)
    ELSE
      LET s == save(b.keyRing, pw, st, <<>>, SaveFail(1, failAt)) IN
      IF Halts(s.err)
      THEN Result(b.keyRing, ks, pw, s.store, MigrateError("save", s.err), b.log \o s.log)
      ELSE
        LET e == GetV1KeysAsV2(lg, "Eth", fetchFail)
            log3 == Append(b.log \o s.log, FetchCall("Eth"))
        IN
        IF Halts(e.err)
        THEN Result(b.keyRing, ks, pw, s.store, MigrateError("Eth", e.err), log3)
        ELSE
          LET r == MigrateEth([keyRing |-> b.keyRing, store |-> s.store, err |-> Nil,
                               log |-> log3, saves |-> 1],
                              ks, pw, e.keys, 1, failAt)
          IN Result(r.keyRing, ks, pw, r.store, r.err, r.log)

\* master.IsEmpty: the count of the rows of encrypted_key_rings, and whether
\* it is zero.
RowCount(st) == IF st.blob.present THEN 1 ELSE 0
IsEmpty(st) == RowCount(st) = 0

\* ------------------------------------------------------------- the system
NoKey == [fam |-> "-", id |-> 0, val |-> 0]

\* The databases a node may be started on: no key ring row; an empty ring; a
\* ring with keys and the state row of its Eth key; a state row without key.
RingOne == [newKeyRing EXCEPT !.Eth = MapSet(EmptyMap, 1, 1), !.CSA = MapSet(EmptyMap, 1, NumVals)]
StoreNone == [blob |-> NoBlob, rows |-> {}]
StoreEmpty == [blob |-> Encrypt(newKeyRing, "pw1"), rows |-> {}]
StoreOne == [blob |-> Encrypt(RingOne, "pw1"), rows |-> {1}]
StoreOrphan == [blob |-> Encrypt(newKeyRing, "pw1"), rows |-> {1}]

\* The legacy tables: a key in every family, or keys in CSA and Eth only.
LegacyFull ==
  [CSA |-> MapSet(EmptyMap, 1, 1), OCR |-> MapSet(EmptyMap, 1, 1), P2P |-> MapSet(EmptyMap, 1, 1),
   VRF |-> MapSet(EmptyMap, 1, 1), Eth |-> [i \in EthIds |-> 1]]
LegacyPartial ==
  [CSA |-> MapSet(EmptyMap, 1, 1), OCR |-> EmptyMap, P2P |-> EmptyMap,
   VRF |-> EmptyMap, Eth |-> MapSet(EmptyMap, NumEthIds, 1)]

\* The installations the model starts from: a database and its legacy tables.
Installations ==
  { [store |-> StoreNone, legacy |-> LegacyPartial],
    [store |-> StoreEmpty, legacy |-> LegacyFull],
    [store |-> StoreOne, legacy |-> LegacyFull],
    [store |-> StoreOrphan, legacy |-> LegacyPartial] }

\* The store call of Unlock made to fail.
UnlockFails == {"none", "get", "load"}
\* The step of a save made to fail: the write of the blob, or an extra write
\* (when there is one); a direct save may also fail to encrypt.
SaveFails(cbs) == IF cbs = <<>> THEN {"none", "blob"} ELSE {"none", "blob", "extra"}

\* The one failure of a Migrate run: the legacy fetch of a family, or the
\* n-th save.  Migrate returns at its first failure, so one is every case.
MigrateFaults ==
  {[fetchFail |-> "none", failAt |-> 0]}
  \cup {[fetchFail |-> f, failAt |-> 0] : f \in MigrateFamilies}
  \cup {[fetchFail |-> "none", failAt |-> n] : n \in 1 .. MaxMigrateSaves}

\* The call was a Migrate that returned an error after it had fetched the
\* legacy Eth keys or tried to.
FailedInEthPhase(call) ==
  /\ call.op = "Migrate"
  /\ call.err # Nil
  /\ \E i \in DOMAIN call.log : call.log[i] = FetchCall("Eth")

\* streak counts the successful Migrate runs in a row that end with this call;
\* resumes tells that the call is a Migrate that follows a Migrate that failed
\* in its Eth phase.
Call(op, key, cbs, p, fail, fetchFail, failAt, r) ==
  [op |-> op, key |-> key, cbs |-> cbs, p |-> p, fail |-> fail, fetchFail |-> fetchFail,
   failAt |-> failAt, err |-> r.err, log |-> r.log,
   streak |-> IF op = "Migrate" /\ r.err = Nil THEN last.streak + 1 ELSE 0,
   resumes |-> op = "Migrate" /\ FailedInEthPhase(last)]

\* The database of the executor at start: nothing committed, no transaction
\* open, the override at Go's zero value.
NoFn == [writes |-> {}, err |-> Nil]
TxInit ==
  /\ AllowUnknownQueryerTypeInTransaction = FALSE
  /\ durable = {}
  /\ outerTx = [open |-> FALSE, writes |-> {}]
  /\ mock = {}
  /\ txlast = [op |-> "new", h |-> "-", fn |-> NoFn, err |-> Nil, calls |-> <<>>,
               begins |-> 0, commits |-> 0, rollbacks |-> 0]

\* The goroutines that call the keystore: two that make mutating calls and
\* one that reads.
Callers == {"c1", "c2"}
Readers == {"r1"}
NoProc == "none"
NoJob ==
  [op |-> "-", key |-> NoKey, p |-> "", fail |-> "none", fetchFail |-> "none", failAt |-> 0,
   contended |-> FALSE, done |-> FALSE, r |-> NoKey]
NoRet == [op |-> "-", p |-> "", err |-> Nil, loaded |-> FALSE, contended |-> FALSE]
NoSeen == [inFlight |-> FALSE, partly |-> FALSE, read |-> FALSE]

\* The lock after newMaster (a new sync.RWMutex), every goroutine outside
\* the keystore.
LockInit ==
  /\ mu = [w |-> NoProc, r |-> {}]
  /\ pc = [c \in Callers \cup Readers |-> "idle"]
  /\ job = [c \in Callers |-> NoJob]
  /\ ret = [c \in Callers |-> NoRet]
  /\ seen = NoSeen

\* The wrapper after NewPeerstoreWrapper: not started, the context live,
\* chDone open, an empty in-memory peerstore.
Addrs == 1 .. NumAddrs
\* The table p2p_peers holds rows (peer_id, (id, addr)) of this wrapper's
\* peerID and of another node's.
peerID == "self"
PeerIDs == {peerID, "other"}
P2PPeers == [PeerID : PeerIDs, Addr : Addrs]
PsNew ==
  /\ once = "Unstarted"
  /\ ctxDone = FALSE
  /\ chDone = FALSE
  /\ loop = "none"
  /\ closer = "idle"
  /\ pstoreClosed = FALSE
  /\ peers = {}
  /\ pslast = [op |-> "new", err |-> Nil]
\* The bridges ORM after NewORM, on a database without bridge types and
\* external initiators.
Names == 1 .. NumNames
NoBridgeCall == [op |-> "NewORM", name |-> 0, fault |-> "none", stmts |-> <<>>, err |-> Nil]
BrNew == blast = NoBridgeCall
BrInit == BrNew /\ bridge_types = {} /\ external_initiators = {}

PsInit == PsNew /\ p2pRows = {}

\* The state after newMaster: locked, the zero key ring, no key states.
NewMaster ==
  /\ keyRing = NilKeyRing
  /\ keyStates = NilKeyStates
  /\ password = ""
  /\ last = [op |-> "new", key |-> NoKey, cbs |-> <<>>, p |-> "", fail |-> "none",
             fetchFail |-> "none", failAt |-> 0, err |-> Nil, log |-> <<>>, streak |-> 0,
             resumes |-> FALSE]
  /\ ncalls = 0

Init ==
  /\ NewMaster
  /\ \E inst \in Installations : store = inst.store /\ legacy = inst.legacy
  /\ TxInit
  /\ LockInit
  /\ PsInit
  /\ BrInit

Commit(r) ==
  /\ ncalls < MaxCalls
  /\ ncalls' = ncalls + 1
  /\ keyRing' = r.keyRing
  /\ keyStates' = r.keyStates
  /\ password' = r.password
  /\ store' = r.store
  /\ UNCHANGED legacy
  /\ UNCHANGED <<txVars, lockVars, psVars, brVars>>

DoUnlock ==
  \E p \in Passwords, fail \in UnlockFails :
    LET r == Unlock(keyRing, keyStates, password, store, p, fail) IN
    /\ Commit(r)
    /\ last' = Call("Unlock", NoKey, <<>>, p, fail, "none", 0, r)

\* The extra writes a caller passes: the key's state row for an Eth key, none
\* for any other.
ExtraWrites(key, write) == IF key.fam = "Eth" THEN <<write>> ELSE <<>>

DoSafeAddKey ==
  \E key \in Keys \cup {ForeignKey} :
    LET cbs == ExtraWrites(key, StateInsert(key.id)) IN
    \E fail \in SaveFails(cbs) :
      LET r == safeAddKey(keyRing, keyStates, password, store, key, cbs, fail) IN
      /\ Commit(r)
      /\ last' = Call("safeAddKey", key, cbs, "", fail, "none", 0, r)

DoSafeRemoveKey ==
  \E key \in Keys \cup {ForeignKey} :
    LET cbs == ExtraWrites(key, StateDelete(key.id)) IN
    \E fail \in SaveFails(cbs) :
      LET r == safeRemoveKey(keyRing, keyStates, password, store, key, cbs, fail) IN
      /\ Commit(r)
      /\ last' = Call("safeRemoveKey", key, cbs, "", fail, "none", 0, r)

DoSave ==
  \E fail \in SaveFails(<<>>) \cup {"encrypt"} :
    LET s == save(keyRing, password, store, <<>>, fail)
        r == Result(keyRing, keyStates, password, s.store, s.err, s.log)
    IN
    /\ Commit(r)
    /\ last' = Call("save", NoKey, <<>>, "", fail, "none", 0, r)

DoMigrate ==
  \E fault \in MigrateFaults :
    LET r == Migrate(keyRing, keyStates, password, store, legacy, fault.fetchFail, fault.failAt) IN
    /\ Commit(r)
    /\ last' = Call("Migrate", NoKey, <<>>, "", "none", fault.fetchFail, fault.failAt, r)

Next ==
  \/ DoUnlock
  \/ DoSafeAddKey
  \/ DoSafeRemoveKey
  \/ DoSave
  \/ DoMigrate

Spec == Init /\ [][Next]_vars

\* ------------------------------------------------------------- SqlxTransaction
Writes == 1 .. NumWrites
\* The dynamic type of the Queryer handed in.
Handles == {"*sqlx.Tx", "*sqlx.DB", "mock"}
\* fc: the rows it writes through the Queryer it is given, and the error it
\* returns after that (nil or not).
Fns == [writes : (SUBSET Writes) \ {{}}, err : {Nil, "FnError"}]

\* The outcome of a call: the database, the error returned, the Queryers fc
\* was invoked against, and the transactions begun, committed, rolled back.
TxResult(dur, otx, mk, err, calls, begins, commits, rollbacks) ==
  [durable |-> dur, outerTx |-> otx, mock |-> mk, err |-> err, calls |-> calls,
   begins |-> begins, commits |-> commits, rollbacks |-> rollbacks]

\* fc(q): the writes go to the Queryer it is given: into the open
\* transaction, to the mock, or (on a plain connection) straight to the rows.
fc(dur, otx, mk, q, fn) ==
  IF q = "*sqlx.Tx"
  THEN TxResult(dur, [otx EXCEPT !.writes = @ \cup fn.writes], mk, fn.err, <<q>>, 0, 0, 0)
  ELSE IF q = "mock"
  THEN TxResult(dur, otx, mk \cup fn.writes, fn.err, <<q>>, 0, 0, 0)
  ELSE TxResult(dur \cup fn.writes, otx, mk, fn.err, <<q>>, 0, 0, 0)

\* sqlxTransactionQ: begins a transaction on the connection, runs fc in it,
\* commits when fc returns nil and rolls back when it returns an error.
sqlxTransactionQ(dur, otx, mk, fn) ==
  IF fn.err = Nil
  THEN TxResult(dur \cup fn.writes, otx, mk, Nil, <<"new *sqlx.Tx">>, 1, 1, 0)
  ELSE TxResult(dur, otx, mk, fn.err, <<"new *sqlx.Tx">>, 1, 0, 1)

\* case *sqlx.Tx: the outer transaction is used.
NestedOpensTransaction(dur, otx, mk, fn) == sqlxTransactionQ(dur, otx, mk, fn)
Nested(dur, otx, mk, fn) == fc(dur, otx, mk, "*sqlx.Tx", fn)

\* case *sqlx.DB
PlainConnectionDirect(dur, otx, mk, fn) == fc(dur, otx, mk, "*sqlx.DB", fn)
PlainConnection(dur, otx, mk, fn) == sqlxTransactionQ(dur, otx, mk, fn)

\* default: the Queryer is of neither type.
UnknownAlwaysAllowed(allow, dur, otx, mk, fn) == fc(dur, otx, mk, "mock", fn)
Unknown(allow, dur, otx, mk, fn) ==
  IF allow THEN fc(dur, otx, mk, "mock", fn)
  ELSE TxResult(dur, otx, mk, "invalid db type", <<>>, 0, 0, 0)

\* SqlxTransaction(ctx, q, lggr, fc): the type switch.
SqlxTransaction(allow, dur, otx, mk, q, fn) ==
  IF q = "*sqlx.Tx" THEN Nested(dur, otx, mk, fn)
  ELSE IF q = "*sqlx.DB" THEN PlainConnection(dur, otx, mk, fn)
  ELSE Unknown(allow, dur, otx, mk, fn)

\* SqlxTransactionWithDefaultCtx: SqlxTransaction under the default query context.
SqlxTransactionWithDefaultCtx(allow, dur, otx, mk, q, fn) ==
  SqlxTransaction(allow, dur, otx, mk, q, fn)

TxCommit(op, q, fn, r) ==
  /\ durable' = r.durable
  /\ outerTx' = r.outerTx
  /\ mock' = r.mock
  /\ txlast' = [op |-> op, h |-> q, fn |-> fn, err |-> r.err, calls |-> r.calls,
                begins |-> r.begins, commits |-> r.commits, rollbacks |-> r.rollbacks]
  /\ UNCHANGED AllowUnknownQueryerTypeInTransaction
  /\ UNCHANGED <<ksVars, lockVars, psVars, brVars>>

\* A *sqlx.Tx can be handed in only while the transaction is open.
Available(q) == q = "*sqlx.Tx" => outerTx.open

DoSqlxTransaction ==
  \E q \in Handles, fn \in Fns :
    /\ Available(q)
    /\ TxCommit("SqlxTransaction", q, fn,
                SqlxTransaction(AllowUnknownQueryerTypeInTransaction, durable, outerTx, mock, q, fn))

DoSqlxTransactionWithDefaultCtx ==
  \E q \in Handles, fn \in Fns :
    /\ Available(q)
    /\ TxCommit("SqlxTransactionWithDefaultCtx", q, fn,
                SqlxTransactionWithDefaultCtx(AllowUnknownQueryerTypeInTransaction, durable,
                                              outerTx, mock, q, fn))

\* A test sets or clears the override.
SetAllowUnknown ==
  /\ AllowUnknownQueryerTypeInTransaction' = ~AllowUnknownQueryerTypeInTransaction
  /\ txlast' = [txlast EXCEPT !.op = "set override"]
  /\ UNCHANGED <<durable, outerTx, mock>>
  /\ UNCHANGED <<ksVars, lockVars, psVars, brVars>>

\* The owner of the enclosing transaction begins it, commits it, rolls it back.
OwnerStep(op, dur, otx) ==
  /\ durable' = dur
  /\ outerTx' = otx
  /\ txlast' = [op |-> op, h |-> "-", fn |-> NoFn, err |-> Nil, calls |-> <<>>,
                begins |-> 0, commits |-> 0, rollbacks |-> 0]
  /\ UNCHANGED <<AllowUnknownQueryerTypeInTransaction, mock>>
  /\ UNCHANGED <<ksVars, lockVars, psVars, brVars>>

OwnerBegin ==
  ~outerTx.open /\ OwnerStep("Begin", durable, [open |-> TRUE, writes |-> {}])
OwnerCommit ==
  outerTx.open /\ OwnerStep("Commit", durable \cup outerTx.writes, [open |-> FALSE, writes |-> {}])
OwnerRollback ==
  outerTx.open /\ OwnerStep("Rollback", durable, [open |-> FALSE, writes |-> {}])

InitTx ==
  /\ NewMaster
  /\ store = StoreNone
  /\ legacy = LegacyPartial
  /\ TxInit
  /\ LockInit
  /\ PsInit
  /\ BrInit

NextTx ==
  \/ DoSqlxTransaction
  \/ DoSqlxTransactionWithDefaultCtx
  \/ SetAllowUnknown
  \/ OwnerBegin
  \/ OwnerCommit
  \/ OwnerRollback

SpecTx == InitTx /\ [][NextTx]_vars

\* ------------------------------------------------------------- the lock
\* sync.RWMutex: Lock is granted when no goroutine holds the lock in either
\* mode, RLock when none holds it for writing.
CanLock(m) == m.w = NoProc /\ m.r = {}
CanRLock(m) == m.w = NoProc
\* The deferred lock.Unlock().
ReleaseForgotten(m) == m
Release(m) == [m EXCEPT !.w = NoProc]

\* The calls the concurrent callers make: Unlock, Migrate, and the Eth
\* facade's add and delete of a key, each with and without a failing store call.
FacadeKey == [fam |-> "Eth", id |-> NumEthIds, val |-> 1]
LockJobs ==
  {[NoJob EXCEPT !.op = "Unlock", !.p = p] : p \in {"pw1", "pw2"}}
  \cup {[NoJob EXCEPT !.op = "Unlock", !.p = "pw1", !.fail = "load"]}
  \cup {[NoJob EXCEPT !.op = "Migrate", !.fetchFail = f] : f \in {"none", "P2P"}}
  \cup {[NoJob EXCEPT !.op = "safeAddKey", !.key = FacadeKey, !.fail = f] : f \in {"none", "blob"}}
  \cup {[NoJob EXCEPT !.op = "safeRemoveKey", !.key = FacadeKey]}

JobCallbacks(jb) ==
  IF jb.op = "safeAddKey" THEN ExtraWrites(jb.key, StateInsert(jb.key.id))
  ELSE IF jb.op = "safeRemoveKey" THEN ExtraWrites(jb.key, StateDelete(jb.key.id))
  ELSE <<>>

\* The call, run from its first statement after the Lock to its return.
Run(jb, kr, ks, pw, st, lg) ==
  IF jb.op = "Unlock" THEN Unlock(kr, ks, pw, st, jb.p, jb.fail)
  ELSE IF jb.op = "Migrate" THEN Migrate(kr, ks, pw, st, lg, jb.fetchFail, jb.failAt)
  ELSE IF jb.op = "safeAddKey" THEN safeAddKey(kr, ks, pw, st, jb.key, JobCallbacks(jb), jb.fail)
  ELSE safeRemoveKey(kr, ks, pw, st, jb.key, JobCallbacks(jb), jb.fail)

\* The ring in memory when the call reaches its (first) store write, or the
\* load of the key states in Unlock: the decrypted ring is already assigned,
\* the key is already inserted or deleted, the four families are merged.
InMemory(jb, kr, ks, pw, st, lg) ==
  IF jb.op = "Unlock" THEN Unlock(kr, ks, pw, st, jb.p, jb.fail).keyRing
  ELSE IF jb.op = "Migrate"
  THEN IF isLocked(pw) THEN kr ELSE MigrateBulk(kr, lg, 1, jb.fetchFail, <<>>).keyRing
  ELSE IF getFieldNameForKey(jb.key).err # Nil THEN kr
  ELSE IF jb.op = "safeAddKey"
  THEN IF kr.alloc THEN [kr EXCEPT ![jb.key.fam] = MapSet(@, jb.key.id, jb.key.val)] ELSE kr
  ELSE [kr EXCEPT ![jb.key.fam] = MapDelete(@, jb.key.id)]

LockFrame == UNCHANGED <<txVars, psVars, brVars>>

\* A goroutine calls Unlock, Migrate or a facade method: its next statement
\* is lock.Lock().
CallBegin(c) ==
  /\ pc[c] = "idle"
  /\ ncalls < MaxCalls
  /\ ncalls' = ncalls + 1
  /\ \E jb \in LockJobs :
       job' = [job EXCEPT ![c] =
                 [jb EXCEPT !.contended = \E d \in Callers \ {c} : pc[d] # "idle"]]
  /\ pc' = [pc EXCEPT ![c] = "Lock"]
  /\ UNCHANGED <<keyRing, keyStates, password, store, legacy, last, mu, ret, seen>>
  /\ LockFrame

\* lock.Lock() returns.
CallLock(c) ==
  /\ pc[c] = "Lock"
  /\ CanLock(mu)
  /\ mu' = [mu EXCEPT !.w = c]
  /\ pc' = [pc EXCEPT ![c] = "locked"]
  /\ UNCHANGED <<ksVars, job, ret, seen>>
  /\ LockFrame

\* The call runs up to its store round trip: the ring in memory is changed.
CallMutate(c) ==
  /\ pc[c] = "locked"
  /\ keyRing' = InMemory(job[c], keyRing, keyStates, password, store, legacy)
  /\ job' = [job EXCEPT ![c].done = TRUE,
                        ![c].r = Run(job[c], keyRing, keyStates, password, store, legacy)]
  /\ pc' = [pc EXCEPT ![c] = "store"]
  /\ UNCHANGED <<keyStates, password, store, legacy, last, ncalls, mu, ret, seen>>
  /\ LockFrame

\* The store round trip, the undo if it failed, the return and the deferred
\* lock.Unlock().
CallReturn(c) ==
  /\ pc[c] = "store"
  /\ LET jb == job[c] IN
     /\ keyRing' = jb.r.keyRing
     /\ keyStates' = jb.r.keyStates
     /\ password' = jb.r.password
     /\ store' = jb.r.store
     /\ ret' = [ret EXCEPT ![c] = [op |-> jb.op, p |-> jb.p, err |-> jb.r.err,
                                   loaded |-> jb.r.log # <<>>, contended |-> jb.contended]]
  /\ mu' = Release(mu)
  /\ job' = [job EXCEPT ![c] = NoJob]
  /\ pc' = [pc EXCEPT ![c] = "idle"]
  /\ UNCHANGED <<legacy, last, ncalls, seen>>
  /\ LockFrame

\* The ring holds the legacy OCR keys and not the legacy P2P keys: Migrate
\* has merged the families before P2P and not P2P and those after it.
PartlyMerged(kr, lg) ==
  /\ DOMAIN lg["OCR"] # {} /\ DOMAIN lg["OCR"] \subseteq DOMAIN kr["OCR"]
  /\ ~(DOMAIN lg["P2P"] \subseteq DOMAIN kr["P2P"])

\* A read accessor of a facade: lock.RLock(), the read of the ring,
\* lock.RUnlock().
ReadLock(r) ==
  /\ pc[r] = "idle"
  /\ CanRLock(mu)
  /\ mu' = [mu EXCEPT !.r = @ \cup {r}]
  /\ pc' = [pc EXCEPT ![r] = "rlocked"]
  /\ seen' = NoSeen
  /\ UNCHANGED <<ksVars, job, ret>>
  /\ LockFrame

Read(r) ==
  /\ pc[r] = "rlocked"
  /\ seen' = [inFlight |-> \E c \in Callers : pc[c] = "store",
              partly |-> PartlyMerged(keyRing, legacy), read |-> TRUE]
  /\ pc' = [pc EXCEPT ![r] = "read"]
  /\ UNCHANGED <<ksVars, mu, job, ret>>
  /\ LockFrame

ReadUnlock(r) ==
  /\ pc[r] = "read"
  /\ mu' = [mu EXCEPT !.r = @ \ {r}]
  /\ pc' = [pc EXCEPT ![r] = "idle"]
  /\ UNCHANGED <<ksVars, job, ret, seen>>
  /\ LockFrame

\* The databases the concurrent callers are run on.
LockInstallations ==
  { [store |-> StoreEmpty, legacy |-> LegacyFull],
    [store |-> StoreOne, legacy |-> LegacyFull] }

InitLock ==
  /\ NewMaster
  /\ \E inst \in LockInstallations : store = inst.store /\ legacy = inst.legacy
  /\ TxInit
  /\ LockInit
  /\ PsInit
  /\ BrInit

NextLock ==
  \/ \E c \in Callers : CallBegin(c)
  \/ \E c \in Callers : CallLock(c)
  \/ \E c \in Callers : CallMutate(c)
  \/ \E c \in Callers : CallReturn(c)
  \/ \E r \in Readers : ReadLock(r)
  \/ \E r \in Readers : Read(r)
  \/ \E r \in Readers : ReadUnlock(r)

SpecLock == InitLock /\ [][NextLock]_vars

\* ------------------------------------------------------------- properties
\* The step is a call of op on an unlocked keystore.
UnlockedCall(op) == last'.op = op /\ password # ""
\* The save of the call was made to fail.
SaveFailed == last'.fail # "none"

\* C1: on an unlocked keystore, a safeAddKey of a key of a known family whose
\* save fails returns the error and leaves the ring as it was before the call,
\* also when the key's id was already in its family map.
C1_AddRollsBack ==
  [][(UnlockedCall("safeAddKey") /\ last'.key.fam \in KnownFamilies /\ SaveFailed)
       => (last'.err # Nil /\ Contents(keyRing') = Contents(keyRing))]_vars

\* C2: on an unlocked keystore, a safeRemoveKey of a key of a known family
\* whose save fails returns the error and leaves the ring as it was before the
\* call, also when the id is absent or stored with another value.
C2_RemoveRollsBack ==
  [][(UnlockedCall("safeRemoveKey") /\ last'.key.fam \in KnownFamilies /\ SaveFailed)
       => (last'.err # Nil /\ Contents(keyRing') = Contents(keyRing))]_vars

\* The ring in memory is the ring of the committed blob.
Converged(kr, st) == st.blob.present /\ Contents(kr) = st.blob.maps

\* C3: memory/disk convergence: on an unlocked keystore whose ring equals the
\* ring of the committed blob, every safeAddKey and safeRemoveKey call, its
\* save failing or not, ends with the ring equal to the ring of the committed
\* blob.
C3_Convergence ==
  [][((UnlockedCall("safeAddKey") \/ UnlockedCall("safeRemoveKey")) /\ Converged(keyRing, store))
       => Converged(keyRing', store')]_vars

\* The blob holds an Eth key of this id; the id has a state row.
InBlob(st, id) == st.blob.present /\ id \in DOMAIN st.blob.maps["Eth"]
HasRow(st, id) == id \in st.rows

\* C4: atomic multi-write: a safeAddKey of an Eth key with its state-row write,
\* on an unlocked keystore.  When the extra write (or the blob write) fails the
\* store is left as it was, so a key that was new is neither in the persisted
\* ring nor has a state row, and the Eth map in memory does not hold the key.
\* When the call succeeds the persisted ring holds the key and the state row
\* exists.  The call never leaves the key in the blob without its row, or the
\* row without the key.
C4_AtomicMultiWrite ==
  [][(UnlockedCall("safeAddKey") /\ last'.key.fam = "Eth" /\ last'.cbs # <<>>)
       => LET id == last'.key.id IN
          /\ last'.fail = "none" <=> last'.err = Nil
          /\ last'.err # Nil =>
               /\ store' = store
               /\ id \notin DOMAIN keyRing'.Eth
               /\ (~InBlob(store, id) /\ ~HasRow(store, id))
                    => (~InBlob(store', id) /\ ~HasRow(store', id))
          /\ last'.err = Nil =>
               /\ InBlob(store', id)
               /\ store'.blob.maps["Eth"][id] = last'.key.val
               /\ HasRow(store', id)
               /\ id \in DOMAIN keyRing'.Eth
          /\ (InBlob(store, id) <=> HasRow(store, id))
               => (InBlob(store', id) <=> HasRow(store', id))]_vars

\* C4, its case: the state-row write of a new Eth key failed.
C4_Witness ==
  /\ last.op = "safeAddKey" /\ last.key.fam = "Eth" /\ last.fail = "extra"
  /\ last.err = "PersistenceError" /\ password # ""
  /\ ~InBlob(store, last.key.id) /\ ~HasRow(store, last.key.id)

\* C5: a first Unlock that fails leaves the ring, the key states and the
\* password as they were: no decrypted ring is kept while the password is
\* empty.
C5_FailedUnlockLeavesNoTrace ==
  [][(last'.op = "Unlock" /\ password = "" /\ last'.err # Nil)
       => (/\ Contents(keyRing') = Contents(keyRing)
           /\ keyStates' = keyStates
           /\ password' = "")]_vars

\* The guarded state is left alone by the step.
GuardedUnchanged ==
  keyRing' = keyRing /\ keyStates' = keyStates /\ password' = password

\* C6: Unlock idempotence: on a keystore unlocked under p, Unlock(p) returns
\* success, reads nothing from the store and leaves the key ring, the key
\* states and the password unchanged, whatever calls were made since the
\* first unlock.
C6_UnlockIdempotent ==
  [][(UnlockedCall("Unlock") /\ last'.p = password)
       => (last'.err = Nil /\ last'.log = <<>> /\ GuardedUnchanged /\ store' = store)]_vars

\* An Eth key the database did not hold at start (its id is NumEthIds) is in
\* the ring: it was added after the first unlock.
AddedSinceUnlock == NumEthIds \in DOMAIN keyRing.Eth

\* C6, its case: a repeated Unlock with the same password, after a key was added.
C6_Witness ==
  /\ last.op = "Unlock" /\ last.err = Nil /\ last.log = <<>> /\ last.p = password
  /\ password # "" /\ AddedSinceUnlock

\* C7: on a keystore unlocked under p1, Unlock(p2) with p2 # p1 returns the
\* password-mismatch error, reads nothing from the store and leaves the key
\* ring, the key states and the password unchanged.
C7_UnlockMismatch ==
  [][(UnlockedCall("Unlock") /\ last'.p # password)
       => (last'.err = "PasswordMismatch" /\ last'.log = <<>> /\ GuardedUnchanged
           /\ store' = store)]_vars

\* C7, its case: a repeated Unlock with another password, after a key was added.
C7_Witness ==
  /\ last.op = "Unlock" /\ last.err = "PasswordMismatch" /\ last.p # password
  /\ password # "" /\ AddedSinceUnlock

\* C8: lock lifecycle: the key manager starts locked; isLocked is true
\* exactly when the password is empty; the password changes only in a
\* successful Unlock, from empty to the password supplied; once set it never
\* changes, so the keystore never becomes locked again.
C8_LockLifecycle ==
  /\ (password = "" /\ isLocked(password))
  /\ [](isLocked(password) <=> password = "")
  /\ [][/\ password' # password
             => (password = "" /\ last'.op = "Unlock" /\ last'.err = Nil
                 /\ password' = last'.p)
        /\ password # "" => password' = password]_vars

\* C8, its case: the keystore was unlocked and calls were made on it since.
C8_Witness ==
  password # "" /\ ~isLocked(password) /\ last.op # "Unlock" /\ ncalls = MaxCalls

LockedCall(op) == last'.op = op /\ password = ""

\* C9 (as claimed): save, safeAddKey and safeRemoveKey invoked with an empty
\* password return Locked, write nothing to the store and leave the ring
\* unchanged.  (A call that panics returns nothing and is not judged here.)
C9_LockedCallsReturnLocked ==
  [][((LockedCall("save") \/ LockedCall("safeAddKey") \/ LockedCall("safeRemoveKey"))
        /\ last'.key # ForeignKey /\ last'.err # "panic")
       => (last'.err = "ErrLocked" /\ store' = store
           /\ Contents(keyRing') = Contents(keyRing))]_vars

\* C9 (amended): the Locked error is returned by Migrate, which tests
\* isLocked before anything else: called with an empty password it returns
\* ErrLocked, makes no store call and leaves the ring and the store unchanged.
\* save, safeAddKey and safeRemoveKey make no such test and never return
\* Locked.
C9_LockedIsCheckedByMigrate ==
  [][/\ LockedCall("Migrate")
          => (last'.err = "ErrLocked" /\ last'.log = <<>> /\ store' = store
              /\ GuardedUnchanged)
     /\ last'.op \in {"save", "safeAddKey", "safeRemoveKey"} => last'.err # "ErrLocked"]_vars

\* C9, its case: Migrate was called on a locked keystore.
C9_Witness ==
  last.op = "Migrate" /\ last.err = "ErrLocked" /\ password = ""

\* C10: migration idempotence: a Migrate run that follows a successful Migrate
\* run on the same legacy tables, and in which no fetch or save is made to
\* fail, returns no error and leaves every family with the same set of key
\* ids (a family is a map, so no id appears twice).
C10_MigrateIdempotent ==
  [][(last.streak >= 1 /\ last'.op = "Migrate" /\ last'.fetchFail = "none"
        /\ last'.failAt = 0)
       => (last'.err = Nil /\ IdsOfRing(keyRing') = IdsOfRing(keyRing))]_vars

\* C10, its case: the second of two successful Migrate runs in a row, with
\* every legacy key in the ring.
C10_Witness ==
  /\ last.streak = 2
  /\ \A f \in MigrateFamilies : DOMAIN legacy[f] \subseteq DOMAIN keyRing[f]
  /\ DOMAIN legacy["OCR"] # {}

\* ------------------------------------------------------------- Migrate, its order and its failures
\* The last call was a Migrate on an unlocked keystore.
MigrateRan == last.op = "Migrate" /\ last.err # "ErrLocked"
SavePlain == SaveCall(<<>>)
SaveWithCallbacks == SaveCall(<<StateInsert(1)>>)
\* The store and reader calls of a Migrate run up to the fetch of the Eth keys.
MigrateOrder ==
  <<"csa.GetV1KeysAsV2", "ocr.GetV1KeysAsV2", "p2p.GetV1KeysAsV2", "vrf.GetV1KeysAsV2",
    SavePlain, "eth.GetV1KeysAsV2">>

\* C11: migration ordering: a Migrate run on an unlocked keystore fetches the
\* legacy families in the order CSA, OCR, P2P, VRF, Eth; it issues no save
\* before the VRF fetch and merge, exactly one save between that and the
\* fetch of the Eth keys, and fetches the Eth keys only when that save has
\* succeeded (after it there are only saves).  A run that returns no error
\* has merged every family.
C11_MigrationOrder ==
  MigrateRan =>
    /\ Len(last.log) >= 1
    /\ \A i \in DOMAIN last.log :
         IF i <= Len(MigrateOrder) THEN last.log[i] = MigrateOrder[i]
         ELSE last.log[i] \in {SavePlain, SaveWithCallbacks}
    /\ Len(last.log) >= Len(MigrateOrder) => last.failAt # 1
    /\ last.failAt = 1 => (Len(last.log) = 5 /\ last.err # Nil)
    /\ last.err = Nil =>
         /\ Len(last.log) >= Len(MigrateOrder)
         /\ \A f \in MigrateFamilies : DOMAIN legacy[f] \subseteq DOMAIN keyRing[f]

\* C11, its case: a Migrate run that went through every family and migrated
\* an Eth key.
C11_Witness ==
  MigrateRan /\ last.err = Nil /\ password # "" /\ Len(last.log) > Len(MigrateOrder)

\* The saves of a Migrate run after its fetch of the Eth keys.
EthSaves(log) ==
  IF Len(log) <= Len(MigrateOrder) THEN <<>> ELSE SubSeq(log, Len(MigrateOrder) + 1, Len(log))
\* The legacy Eth keys whose id is not in the ring (before the step).
NewEthIds == (DOMAIN legacy["Eth"]) \ (DOMAIN keyRing.Eth)

\* C12 (as claimed): in a Migrate run every save after the fetch of the Eth
\* keys carries the chain-state write, a run without error issues exactly one
\* save per legacy Eth key that was not in the ring, and no such key is in
\* the committed blob without its state row.
C12_OneSavePerEthKey ==
  [][UnlockedCall("Migrate")
       => LET saves == EthSaves(last'.log) IN
          /\ \A i \in DOMAIN saves : saves[i] = SaveWithCallbacks
          /\ last'.err = Nil => Len(saves) = Cardinality(NewEthIds)
          /\ \A id \in NewEthIds : InBlob(store', id) => HasRow(store', id)]_vars

\* C12 (amended): for each legacy Eth key that is not in the ring Migrate
\* issues two saves: the save of addEthKeyWithState, which carries the key's
\* chain-state write, and then a save without callbacks.  The key is
\* committed by the first of the two, together with its state row: no
\* committed store holds such a key without its row, and a key the run
\* left in the ring is in the committed blob.
C12_EthKeyCommitsWithState ==
  [][UnlockedCall("Migrate")
       => LET saves == EthSaves(last'.log) IN
          /\ \A i \in DOMAIN saves :
               saves[i] = IF i % 2 = 1 THEN SaveWithCallbacks ELSE SavePlain
          /\ last'.err = Nil => Len(saves) = 2 * Cardinality(NewEthIds)
          /\ \A id \in NewEthIds :
               /\ InBlob(store', id) => HasRow(store', id)
               /\ id \in DOMAIN keyRing'.Eth => InBlob(store', id)]_vars

\* C12, its case: a Migrate run migrated an Eth key: the save with the state
\* write, then the save without, and the key is committed with its row.
C12_Witness ==
  /\ MigrateRan /\ last.err = Nil
  /\ Len(EthSaves(last.log)) >= 2
  /\ EthSaves(last.log)[1] = SaveWithCallbacks
  /\ EthSaves(last.log)[2] = SavePlain
  /\ InBlob(store, NumEthIds) /\ HasRow(store, NumEthIds)

\* The order of the families, as claimed.
MigrationOrder == <<"CSA", "OCR", "P2P", "VRF", "Eth">>
Pos(fam) == CHOOSE i \in DOMAIN MigrationOrder : MigrationOrder[i] = fam
Fetched(log, fam) == \E i \in DOMAIN log : log[i] = FetchCall(fam)

\* C13: Migrate halts on the first failure: when the legacy fetch of family F
\* fails the run returns an error, the failed fetch is its last call, no
\* later family is fetched and the maps of F and of every later family are
\* as before the call; when the save of the merged families fails the run
\* returns an error, the save is its last call, the Eth keys are not fetched
\* and the Eth map is as before.
C13_HaltsOnFirstFailure ==
  [][UnlockedCall("Migrate")
       => /\ \A F \in MigrateFamilies :
               last'.fetchFail = F =>
                 /\ last'.err # Nil
                 /\ last'.log[Len(last'.log)] = FetchCall(F)
                 /\ \A G \in MigrateFamilies :
                      /\ Pos(G) > Pos(F) => ~Fetched(last'.log, G)
                      /\ Pos(G) >= Pos(F) => keyRing'[G] = keyRing[G]
          /\ last'.failAt = 1 =>
               /\ last'.err # Nil
               /\ last'.log[Len(last'.log)] = SavePlain
               /\ ~Fetched(last'.log, "Eth")
               /\ keyRing'.Eth = keyRing.Eth]_vars

\* C13, its case: the fetch of the P2P keys failed after the OCR keys were
\* merged; no P2P key is in the ring.
C13_Witness ==
  /\ MigrateRan /\ last.fetchFail = "P2P" /\ last.err # Nil
  /\ DOMAIN legacy["P2P"] # {}
  /\ DOMAIN keyRing.OCR # {} /\ DOMAIN keyRing.P2P = {}

\* C14: a Migrate run on an unlocked keystore whose ring is the ring of the
\* committed blob returns, with or without error, with the ring equal to the
\* ring of the committed blob.
C14_MigrateLeavesRingPersisted ==
  [][(UnlockedCall("Migrate") /\ Converged(keyRing, store))
       => Converged(keyRing', store')]_vars

\* The k-th smallest element of a set of numbers.
KthSmallest(S, k) == CHOOSE x \in S : Cardinality({y \in S : y < x}) = k - 1
\* The legacy Eth keys a failed run processed before the one it failed at:
\* none when the fetch failed; the failAt-th save of the run belongs to the
\* (failAt \div 2)-th key that was not in the ring.
ProcessedBefore ==
  IF last'.failAt < 2 THEN {}
  ELSE {id \in DOMAIN legacy["Eth"] : id < KthSmallest(NewEthIds, last'.failAt \div 2)}

\* C15: migration is resumable: when a Migrate run fails in its Eth phase,
\* the committed blob holds every legacy CSA, OCR, P2P and VRF key and every
\* Eth key processed before the failing one, and a Migrate run from there
\* in which nothing fails returns success with the key ids a single run
\* without failure would have produced; the Migrate call that follows such a
\* failure, nothing failing, returns success with every legacy key in the ring.
C15_MigrationResumable ==
  [][/\ (UnlockedCall("Migrate") /\ FailedInEthPhase(last'))
          => /\ store'.blob.present
             /\ \A i \in DOMAIN BulkFamilies :
                  DOMAIN legacy[BulkFamilies[i]] \subseteq DOMAIN store'.blob.maps[BulkFamilies[i]]
             /\ \A id \in ProcessedBefore : InBlob(store', id)
             /\ LET resumed == Migrate(keyRing', keyStates', password', store', legacy, "none", 0)
                    single == Migrate(keyRing, keyStates, password, store, legacy, "none", 0)
                IN /\ resumed.err = Nil
                   /\ IdsOfRing(resumed.keyRing) = IdsOfRing(single.keyRing)
     /\ (last'.resumes /\ last'.fetchFail = "none" /\ last'.failAt = 0)
          => /\ last'.err = Nil
             /\ \A f \in MigrateFamilies : DOMAIN legacy[f] \subseteq DOMAIN keyRing'[f]
             /\ \A f \in MigrateFamilies : DOMAIN legacy[f] \subseteq DOMAIN store'.blob.maps[f]]_vars

\* C15, its case: a Migrate run that followed a run failed in its Eth phase
\* succeeded and migrated the Eth keys that were left.
C15_Witness ==
  /\ last.resumes /\ last.err = Nil
  /\ Len(EthSaves(last.log)) >= 2
  /\ \A f \in MigrateFamilies : DOMAIN legacy[f] \subseteq DOMAIN keyRing[f]

\* An error value that names the family.
MigrationErrorOf(fam) ==
  [CSA |-> "MigrationError(CSA)", OCR |-> "MigrationError(OCR)", P2P |-> "MigrationError(P2P)",
   VRF |-> "MigrationError(VRF)", Eth |-> "MigrationError(Eth)"][fam]

\* C16 (as claimed): the error of a Migrate run in which the fetch of family
\* F failed, or an Eth key's add or save, is the MigrationError of that family.
C16_MigrationErrorNamesFamily ==
  MigrateRan =>
    /\ last.fetchFail \in MigrateFamilies => last.err = MigrationErrorOf(last.fetchFail)
    /\ (last.failAt >= 2 /\ last.err # Nil) => last.err = MigrationErrorOf("Eth")

\* C16 (amended): Migrate returns the error of the failed step as it is: the
\* error of the family's legacy reader when a fetch failed, the error of the
\* save when a save failed.  It wraps nothing and adds no family, so the
\* failed fetches of two families return the same value when their readers do.
C16_ErrorsPassThrough ==
  MigrateRan =>
    /\ last.fetchFail \in MigrateFamilies
         => last.err = GetV1KeysAsV2(legacy, last.fetchFail, last.fetchFail).err
    /\ (last.fetchFail = "none" /\ last.err # Nil) => last.err = "PersistenceError"
    /\ \A f \in MigrateFamilies : last.err # MigrationErrorOf(f)

\* C16, its case: the fetch of the OCR keys failed.
C16_Witness ==
  MigrateRan /\ password # "" /\ last.fetchFail = "OCR" /\ last.err = "LegacyFetchError"

\* ------------------------------------------------------------- one entry per id
\* C17: keys are unique per family (a family is a map from id to key): a
\* successful safeAddKey leaves exactly the ids that were there and the id
\* of the key, stores the key added under its id and leaves every other
\* entry alone; when the id was present the map does not grow; and adding
\* the same key again leaves the ring as it is.
C17_AddReplaces ==
  [][(last'.op = "safeAddKey" /\ last'.err = Nil)
       => LET k == last'.key
              m == keyRing[k.fam]
              n == keyRing'[k.fam]
              again == safeAddKey(keyRing', keyStates', password', store', k, last'.cbs, "none")
          IN /\ DOMAIN n = (DOMAIN m) \cup {k.id}
             /\ n[k.id] = k.val
             /\ \A i \in (DOMAIN m) \ {k.id} : n[i] = m[i]
             /\ k.id \in DOMAIN m => Cardinality(DOMAIN n) = Cardinality(DOMAIN m)
             /\ \A f \in KnownFamilies \ {k.fam} : keyRing'[f] = keyRing[f]
             /\ again.err = Nil /\ again.keyRing = keyRing']_vars

\* C17, its case: the first call after Unlock on the database that holds the
\* Eth key 1 (and the CSA key of material NumVals) added an Eth key 1 of
\* other material: the entry was replaced.
C17_Witness ==
  /\ last.op = "safeAddKey" /\ last.err = Nil /\ ncalls = 2 /\ password # ""
  /\ last.key = [fam |-> "Eth", id |-> 1, val |-> NumVals]
  /\ 1 \in DOMAIN keyRing.CSA /\ keyRing.CSA[1] = NumVals
  /\ DOMAIN keyRing.Eth = {1} /\ keyRing.Eth[1] = NumVals

\* ------------------------------------------------------------- SqlxTransaction
\* The step is a call of SqlxTransaction (or of its default-context form)
\* with a Queryer of type q.
TxCall(q) ==
  txlast'.op \in {"SqlxTransaction", "SqlxTransactionWithDefaultCtx"} /\ txlast'.h = q
TxCalled(q) ==
  txlast.op \in {"SqlxTransaction", "SqlxTransactionWithDefaultCtx"} /\ txlast.h = q

\* C18: the executor fails closed: given a Queryer that is neither a
\* *sqlx.Tx nor a *sqlx.DB while the override is false, SqlxTransaction
\* returns an error, does not invoke the function and writes nothing; with
\* the override true it invokes the function once, against the Queryer given,
\* and returns its error unchanged, beginning, committing and rolling back
\* no transaction.
C18_FailsClosed ==
  [][TxCall("mock")
       => /\ ~AllowUnknownQueryerTypeInTransaction =>
               /\ txlast'.err = "invalid db type"
               /\ txlast'.calls = <<>>
               /\ mock' = mock
          /\ AllowUnknownQueryerTypeInTransaction =>
               /\ txlast'.calls = <<"mock">>
               /\ txlast'.err = txlast'.fn.err
               /\ mock' = mock \cup txlast'.fn.writes
          /\ txlast'.begins = 0 /\ txlast'.commits = 0 /\ txlast'.rollbacks = 0
          /\ durable' = durable /\ outerTx' = outerTx]_vars

\* C18, its case: a Queryer of unknown type was rejected, after an earlier
\* call under the override had been let through.
C18_Witness ==
  /\ TxCalled("mock") /\ ~AllowUnknownQueryerTypeInTransaction
  /\ txlast.err = "invalid db type" /\ txlast.calls = <<>>
  /\ mock # {}

\* C19: nesting by reuse: given an open transaction, SqlxTransaction invokes
\* the function once, against that transaction, begins no transaction,
\* commits and rolls back none, and returns the function's result unchanged,
\* whether it is an error or not; the writes join the open transaction and
\* none becomes durable by the call.  The writes of the transaction become
\* durable when its owner commits it and are dropped when the owner rolls it
\* back.
C19_NestingByReuse ==
  [][/\ TxCall("*sqlx.Tx")
          => /\ txlast'.calls = <<"*sqlx.Tx">>
             /\ txlast'.begins = 0 /\ txlast'.commits = 0 /\ txlast'.rollbacks = 0
             /\ txlast'.err = txlast'.fn.err
             /\ outerTx'.open
             /\ outerTx'.writes = outerTx.writes \cup txlast'.fn.writes
             /\ durable' = durable /\ mock' = mock
     /\ txlast'.op = "Commit" => durable' = durable \cup outerTx.writes
     /\ txlast'.op = "Rollback" => durable' = durable]_vars

\* C19, its case: a function that returned an error ran in the enclosing
\* transaction: its writes are in the transaction, which is still open, and
\* nothing is durable.
C19_Witness ==
  /\ TxCalled("*sqlx.Tx") /\ txlast.err = "FnError"
  /\ outerTx.open /\ txlast.fn.writes \subseteq outerTx.writes
  /\ durable = {}

\* C20: given a plain connection, SqlxTransaction begins one transaction,
\* invokes the function once, in that transaction, commits exactly when the
\* function returns no error and rolls back exactly when it returns one, and
\* returns the function's error; after the call all the writes of the
\* function are durable or the durable rows are as before.
C20_PlainConnectionIsAtomic ==
  [][TxCall("*sqlx.DB")
       => /\ txlast'.begins = 1
          /\ txlast'.calls = <<"new *sqlx.Tx">>
          /\ txlast'.commits = (IF txlast'.fn.err = Nil THEN 1 ELSE 0)
          /\ txlast'.rollbacks = (IF txlast'.fn.err = Nil THEN 0 ELSE 1)
          /\ txlast'.err = txlast'.fn.err
          /\ durable' = (IF txlast'.fn.err = Nil THEN durable \cup txlast'.fn.writes ELSE durable)
          /\ outerTx' = outerTx /\ mock' = mock]_vars

\* C20, its case: a function that wrote every row and returned an error was
\* run on a plain connection: the transaction was rolled back and no row is
\* durable.
C20_Witness ==
  /\ TxCalled("*sqlx.DB") /\ txlast.err = "FnError" /\ txlast.fn.writes = Writes
  /\ txlast.rollbacks = 1 /\ durable = {}

\* ------------------------------------------------------------- validation, families, round trip
\* The first Unlock of the step read the blob, decrypted it and loaded the
\* key states.
UnlockLoaded ==
  /\ LockedCall("Unlock")
  /\ last'.log = <<"getEncryptedKeyRing", "loadKeyStates">>
  /\ last'.fail = "none"

\* C22: key-state validation at unlock: a first Unlock returns success only
\* if every key-state row references an id of the Eth map of the decrypted
\* ring; when a row references a missing id it returns the validation error
\* and the password stays empty; after a successful Unlock every key state
\* in memory references an Eth key of the ring in memory.
C22_UnlockValidates ==
  [][/\ UnlockLoaded
          => /\ last'.err = Nil <=> store.rows \subseteq DOMAIN store.blob.maps["Eth"]
             /\ last'.err # Nil => (last'.err = "ValidationError" /\ password' = "")
     /\ (LockedCall("Unlock") /\ last'.err = Nil)
          => (/\ password' = last'.p
              /\ keyStates'.loaded
              /\ keyStates'.ids = store.rows
              /\ keyStates'.ids \subseteq DOMAIN keyRing'.Eth)]_vars

\* C22, its case: the database holds a state row of an Eth key that is not
\* in the ring; Unlock returned the validation error and the keystore is
\* locked.
C22_Witness ==
  /\ last.op = "Unlock" /\ last.err = "ValidationError" /\ password = ""
  /\ \E id \in store.rows : ~InBlob(store, id)

\* C23: safeAddKey and safeRemoveKey called with a key of none of the five
\* families return the unknown-family error, make no store call and leave
\* every family map and the store as they were.
C23_UnknownFamilyRejected ==
  [][(last'.op \in {"safeAddKey", "safeRemoveKey"} /\ last'.key.fam \notin KnownFamilies)
       => (/\ last'.err = "UnknownKeyFamily"
           /\ last'.log = <<>>
           /\ keyRing' = keyRing
           /\ store' = store)]_vars

\* C23, its case: a key of unknown family was handed to an unlocked keystore
\* that holds keys.
C23_Witness ==
  /\ last.op \in {"safeAddKey", "safeRemoveKey"} /\ last.key = ForeignKey
  /\ last.err = "UnknownKeyFamily" /\ password # ""
  /\ DOMAIN keyRing.CSA # {}

\* A fresh key manager that runs Unlock with this password on this store
\* unlocks and holds this ring.
RoundTrips(kr, pw, st) ==
  LET fresh == Unlock(NilKeyRing, NilKeyStates, "", st, pw, "none") IN
  fresh.err = Nil /\ Contents(fresh.keyRing) = Contents(kr)

\* C24: durable round trip: on an unlocked keystore every successful save
\* (alone, or of safeAddKey or safeRemoveKey) persists the encryption of the
\* whole ring in memory under the cached password; so after the first Unlock
\* and after every later successful call from a state that round-trips, a
\* fresh key manager that unlocks with the same password holds a ring equal
\* to the ring in memory.
C24_DurableRoundTrip ==
  [][/\ (last'.op \in {"save", "safeAddKey", "safeRemoveKey"} /\ password # ""
           /\ last'.err = Nil)
          => /\ store'.blob = Encrypt(keyRing', password')
             /\ Decrypt(store'.blob, password').err = Nil
             /\ Contents(Decrypt(store'.blob, password').kr) = Contents(keyRing')
             /\ RoundTrips(keyRing, password, store) => RoundTrips(keyRing', password', store')
     /\ (LockedCall("Unlock") /\ last'.err = Nil)
          => RoundTrips(keyRing', password', store')]_vars

\* C24, its case: calls were made since Unlock, the last one a successful
\* removal, and the ring, which holds keys, round-trips.
C24_Witness ==
  /\ ncalls = MaxCalls /\ password # ""
  /\ last.op = "safeRemoveKey" /\ last.err = Nil
  /\ DOMAIN keyRing.CSA # {}
  /\ RoundTrips(keyRing, password, store)

\* C25 (as claimed): in every reachable state exactly one encrypted key-ring
\* row exists.
C25_ExactlyOneRow == RowCount(store) = 1

\* C25 (amended): at most one encrypted key-ring row exists; there is none
\* on a database no key ring was ever saved to (IsEmpty), and a row once
\* written is never deleted.  The row is the latest snapshot persisted: a
\* successful save replaces it by the encryption of the ring in memory, and
\* a failed save of save, safeAddKey or safeRemoveKey leaves it as it was.
C25_LatestSnapshot ==
  /\ [](RowCount(store) <= 1 /\ (IsEmpty(store) <=> ~store.blob.present))
  /\ [][/\ ~IsEmpty(store) => ~IsEmpty(store')
        /\ last'.op \in {"save", "safeAddKey", "safeRemoveKey"}
             => /\ last'.fail # "none" => store' = store
                /\ (last'.fail = "none" /\ last'.log # <<>>)
                     => store'.blob = Encrypt(keyRing', password')]_vars

\* C25, its case: a save failed on a database that holds a key ring saved
\* earlier in the run; the row is that key ring.
C25_Witness ==
  /\ last.op \in {"save", "safeAddKey", "safeRemoveKey"} /\ last.fail = "blob"
  /\ last.err = "PersistenceError" /\ password # ""
  /\ ~IsEmpty(store)
  /\ DOMAIN store.blob.maps["Eth"] = EthIds

\* The saves in a call log.
NumSaves(log) ==
  Cardinality({i \in DOMAIN log : log[i] \in {SaveCall(<<>>), SaveCall(<<StateInsert(1)>>)}})

\* C26: no retries: the first failing store call of Unlock, safeAddKey,
\* safeRemoveKey and Migrate is the last store call of the operation, which
\* returns an error; safeAddKey and safeRemoveKey of a key of a known family
\* call save once (a safeAddKey that panics on the nil map calls nothing).
C26_NoRetries ==
  /\ (last.op = "Unlock" /\ last.fail = "get" /\ last.log # <<>>)
       => (last.err # Nil /\ last.log = <<"getEncryptedKeyRing">>)
  /\ (last.op = "Unlock" /\ last.fail = "load" /\ Len(last.log) >= 2)
       => (last.err # Nil /\ last.log = <<"getEncryptedKeyRing", "loadKeyStates">>)
  /\ (last.op \in {"safeAddKey", "safeRemoveKey"} /\ last.key.fam \in KnownFamilies)
       => /\ Len(last.log) = (IF last.op = "safeAddKey" /\ last.err = "panic" THEN 0 ELSE 1)
          /\ last.fail # "none" => last.err # Nil
  /\ (last.op = "Migrate" /\ last.err # "ErrLocked")
       => /\ last.fetchFail # "none"
               => (last.err # Nil /\ last.log[Len(last.log)] = FetchCall(last.fetchFail)
                   /\ Cardinality({i \in DOMAIN last.log : last.log[i] = FetchCall(last.fetchFail)}) = 1)
          /\ (last.failAt > 0 /\ last.failAt <= NumSaves(last.log))
               => (last.err # Nil /\ NumSaves(last.log) = last.failAt
                   /\ last.log[Len(last.log)] \in {SaveCall(<<>>), SaveCall(<<StateInsert(1)>>)})
          /\ last.err = Nil => (last.failAt = 0 \/ last.failAt > NumSaves(last.log))

\* C26, its case: the save of a safeRemoveKey failed on an unlocked
\* keystore: one store call, and the error returned.
C26_Witness ==
  /\ last.op = "safeRemoveKey" /\ last.fail = "blob" /\ password # ""
  /\ last.err = "PersistenceError" /\ Len(last.log) = 1

\* C28: Migrate only adds: every key of the ring before a Migrate call is in
\* the ring after it, with the value it had, whether the call succeeds or
\* fails; a legacy key whose id is in its family map does not replace the
\* entry.
C28_MigrateOnlyAdds ==
  [][last'.op = "Migrate"
       => \A f \in KnownFamilies : \A id \in DOMAIN keyRing[f] :
            id \in DOMAIN keyRing'[f] /\ keyRing'[f][id] = keyRing[f][id]]_vars

\* C28, its case: the ring held a CSA key under the id of a legacy CSA key
\* of other material; after a successful Migrate it holds its own.
C28_Witness ==
  /\ last.op = "Migrate" /\ last.err = Nil
  /\ 1 \in DOMAIN keyRing.CSA /\ 1 \in DOMAIN legacy["CSA"]
  /\ keyRing.CSA[1] # legacy["CSA"][1]
  /\ DOMAIN keyRing.OCR # {}

\* ------------------------------------------------- the peerstore wrapper
PsFrame == UNCHANGED <<ksVars, txVars, lockVars, brVars>>
PsCall(op, err) == [op |-> op, err |-> err]

\* utils.StartStopOnce after a StartOnce whose function returned an error.
AfterFailedStart == {"Started", "StartFailed"}

\* getPeers: SELECT id, addr FROM p2p_peers WHERE peer_id = $1
getPeers(rows) == {r.Addr : r \in {x \in rows : x.PeerID = peerID}}

\* Start: StartOnce runs the function the first time only.  readFromDB adds
\* the addresses of the p2p_peers rows to the peerstore; when it fails Start
\* returns the error, otherwise the dbLoop goroutine is started.
PsStart ==
  \/ /\ once = "Unstarted"
     /\ \E readFails \in BOOLEAN :
          IF readFails
          THEN /\ once' \in AfterFailedStart
               /\ pslast' = PsCall("Start", "ReadError")
               /\ UNCHANGED <<peers, loop>>
          ELSE /\ once' = "Started"
               /\ peers' = peers \cup getPeers(p2pRows)
               /\ loop' = "select"
               /\ pslast' = PsCall("Start", Nil)
     /\ UNCHANGED <<ctxDone, chDone, closer, pstoreClosed, p2pRows>>
     /\ PsFrame
  \/ /\ once # "Unstarted"
     /\ pslast' = PsCall("Start", "AlreadyStarted")
     /\ UNCHANGED <<once, ctxDone, chDone, loop, closer, pstoreClosed, peers, p2pRows>>
     /\ PsFrame

\* The networking stack adds an address to the (embedded) Peerstore.
AddAddr ==
  /\ ~pstoreClosed
  /\ \E a \in Addrs : peers' = peers \cup {a}
  /\ UNCHANGED <<once, ctxDone, chDone, loop, closer, pstoreClosed, p2pRows, pslast>>
  /\ PsFrame

\* An address of the Peerstore expires or is cleared.
ClearAddrs ==
  /\ ~pstoreClosed
  /\ \E a \in peers : peers' = peers \ {a}
  /\ UNCHANGED <<once, ctxDone, chDone, loop, closer, pstoreClosed, p2pRows, pslast>>
  /\ PsFrame

\* dbLoop: the select takes the ticker's case ...
LoopTick ==
  /\ loop = "select"
  /\ loop' = "write"
  /\ UNCHANGED <<once, ctxDone, chDone, closer, pstoreClosed, peers, p2pRows, pslast>>
  /\ PsFrame

\* DELETE FROM p2p_peers WHERE peer_id = $1
DeleteFrom(rows, id) == {r \in rows : r.PeerID # id}

\* The P2PPeer values WriteToDB builds from the peerstore.
PeersOf(prs) == {[PeerID |-> peerID, Addr |-> a] : a \in prs}

\* INSERT INTO p2p_peers (...) VALUES %s, with one "(?, ?, ?, NOW(), NOW())"
\* per value: with no value the statement ends after VALUES and the database
\* rejects it.
InsertInto(values) == IF values = {} THEN "SyntaxError" ELSE Nil

\* The statement or the commit that the database fails in a WriteToDB.
WriteFaults == {"none", "delete", "insert", "commit"}

\* Q.Transaction: the rows are those the function left when it returned nil
\* and the commit succeeded, and the rows before otherwise.
Transaction(rows, written, err, fault) ==
  IF err = Nil /\ fault # "commit" THEN written ELSE rows

\* WriteToDB: in one transaction, the DELETE of this peerID's rows and the
\* INSERT of the peerstore's.
WriteToDB(rows, prs, fault) ==
  LET deleted == DeleteFrom(rows, peerID)
      values == PeersOf(prs)
      err == IF fault = "delete" THEN "delete from p2p_peers failed"
             ELSE IF fault = "insert" \/ InsertInto(values) # Nil
             THEN "insert into p2p_peers failed"
             ELSE Nil
      written == IF fault = "delete" THEN rows
                 ELSE IF err # Nil THEN deleted
                 ELSE deleted \cup values
  IN [rows |-> Transaction(rows, written, err, fault),
      err |-> IF err # Nil THEN err ELSE IF fault = "commit" THEN "commit failed" ELSE Nil]

\* ... and WriteToDB runs (its error is logged);
LoopWrite ==
  /\ loop = "write"
  /\ \E fault \in WriteFaults :
       LET w == WriteToDB(p2pRows, peers, fault) IN
       /\ p2pRows' = w.rows
       /\ pslast' = [op |-> "WriteToDB", err |-> w.err, fault |-> fault]
  /\ loop' = "select"
  /\ UNCHANGED <<once, ctxDone, chDone, closer, pstoreClosed, peers>>
  /\ PsFrame

\* or the select takes ctx.Done(): the loop returns and the deferred
\* close(p.chDone) runs.
LoopExit ==
  /\ loop = "select"
  /\ ctxDone
  /\ loop' = "exited"
  /\ chDone' = TRUE
  /\ UNCHANGED <<once, ctxDone, closer, pstoreClosed, peers, p2pRows, pslast>>
  /\ PsFrame

\* Close: StopOnce runs the function if the wrapper is started, and returns
\* an error otherwise.
CloseCall ==
  /\ closer \in {"idle", "refused"}
  /\ IF once = "Started"
     THEN once' = "Stopped" /\ closer' = "cancel" /\ UNCHANGED pslast
     ELSE closer' = "refused" /\ pslast' = PsCall("Close", "NotStarted") /\ UNCHANGED once
  /\ UNCHANGED <<ctxDone, chDone, loop, pstoreClosed, peers, p2pRows>>
  /\ PsFrame

\* p.ctxCancel()
CloseCancel ==
  /\ closer = "cancel"
  /\ ctxDone' = TRUE
  /\ closer' = "wait"
  /\ UNCHANGED <<once, chDone, loop, pstoreClosed, peers, p2pRows, pslast>>
  /\ PsFrame

\* <-p.chDone
NoWait(ch) == TRUE
Waited(ch) == ch

CloseWait ==
  /\ closer = "wait"
  /\ Waited(chDone)
  /\ closer' = "close"
  /\ UNCHANGED <<once, ctxDone, chDone, loop, pstoreClosed, peers, p2pRows, pslast>>
  /\ PsFrame

\* return p.Peerstore.Close()
CloseStore ==
  /\ closer = "close"
  /\ pstoreClosed' = TRUE
  /\ closer' = "returned"
  /\ \E err \in {Nil, "CloseError"} : pslast' = PsCall("Close", err)
  /\ UNCHANGED <<once, ctxDone, chDone, loop, peers, p2pRows>>
  /\ PsFrame

\* The wrapper is created on a database that holds any rows of its peerID.
InitPstore ==
  /\ NewMaster
  /\ store = StoreNone
  /\ legacy = LegacyPartial
  /\ TxInit
  /\ LockInit
  /\ PsNew
  /\ p2pRows \in SUBSET P2PPeers
  /\ BrInit

NextPstore ==
  \/ PsStart
  \/ AddAddr
  \/ ClearAddrs
  \/ LoopTick
  \/ LoopWrite
  \/ LoopExit
  \/ CloseCall
  \/ CloseCancel
  \/ CloseWait
  \/ CloseStore

SpecPstore == InitPstore /\ [][NextPstore]_vars

\* The goroutines of dbLoop and of Close are scheduled, so a step of theirs
\* that stays possible is taken; the select of dbLoop chooses at random among
\* the cases that are ready, so the case ctx.Done(), ready at every select
\* once the context is cancelled, is taken at some select.
SpecPstoreFair ==
  /\ SpecPstore
  /\ WF_vars(LoopWrite)
  /\ SF_vars(LoopExit)
  /\ WF_vars(CloseCancel)
  /\ WF_vars(CloseWait)
  /\ WF_vars(CloseStore)

\* ------------------------------------------------------ the bridges ORM
BrFrame == UNCHANGED <<ksVars, txVars, lockVars, psVars>>

\* A statement is executed against the handle that Transaction passes to its
\* function (q) or against the connection pool of the ORM (o.db).
Stmt(sql, table, handle) == [sql |-> sql, table |-> table, handle |-> handle]

\* The statements each function passed to Transaction issues.
CreateBridgeTypeFn == <<Stmt("INSERT", "bridge_types", "q")>>
ExternalInitiatorsFn ==
  <<Stmt("SELECT COUNT", "external_initiators", "o.db"),
    Stmt("SELECT", "external_initiators", "o.db")>>
CreateExternalInitiatorFn == <<Stmt("INSERT", "external_initiators", "o.db")>>

\* The statement or the commit that the database fails in a call.
BridgeFaults == {"none", "stmt", "commit"}

\* Q.Transaction around a function with these statements: the transaction
\* commits when the function returned nil and the commit succeeds, and is
\* rolled back otherwise.
BrErr(fault) ==
  IF fault = "stmt" THEN "StatementError" ELSE IF fault = "commit" THEN "CommitError" ELSE Nil

\* The rows of the table after the call that inserts the name: a statement
\* executed against the connection pool is committed on its own, one
\* executed against q with the transaction.
Inserted(rows, stmts, table, name, fault) ==
  LET ins == {i \in DOMAIN stmts : stmts[i].sql = "INSERT" /\ stmts[i].table = table}
      own == \E i \in ins : stmts[i].handle = "o.db"
      intx == \E i \in ins : stmts[i].handle = "q"
  IN IF fault = "stmt" THEN rows
     ELSE IF own \/ (intx /\ fault = "none") THEN rows \cup {name}
     ELSE rows

BridgeCall(op, name, fault, stmts, err) ==
  [op |-> op, name |-> name, fault |-> fault, stmts |-> stmts, err |-> err]

CreateBridgeType ==
  \E name \in Names, fault \in BridgeFaults :
    /\ bridge_types' = Inserted(bridge_types, CreateBridgeTypeFn, "bridge_types", name, fault)
    /\ blast' = BridgeCall("CreateBridgeType", name, fault, CreateBridgeTypeFn, BrErr(fault))
    /\ UNCHANGED external_initiators
    /\ BrFrame

\* ExternalInitiators: the count and the select, in a read-only transaction.
ExternalInitiators ==
  \E fault \in BridgeFaults :
    /\ blast' = BridgeCall("ExternalInitiators", 0, fault, ExternalInitiatorsFn, BrErr(fault))
    /\ UNCHANGED <<bridge_types, external_initiators>>
    /\ BrFrame

CreateExternalInitiator ==
  \E name \in Names, fault \in BridgeFaults :
    /\ external_initiators' =
         Inserted(external_initiators, CreateExternalInitiatorFn, "external_initiators", name, fault)
    /\ blast' = BridgeCall("CreateExternalInitiator", name, fault, CreateExternalInitiatorFn,
                           BrErr(fault))
    /\ UNCHANGED bridge_types
    /\ BrFrame

\* DeleteBridgeType, DeleteExternalInitiator: one DELETE outside any
\* transaction; sql.ErrNoRows when no row had the name.
Deleted(rows, name) == rows \ {name}
DeleteErr(rows, name) == IF name \in rows THEN Nil ELSE "sql.ErrNoRows"

DeleteBridgeType ==
  \E name \in Names :
    /\ bridge_types' = Deleted(bridge_types, name)
    /\ blast' = BridgeCall("DeleteBridgeType", name, "none", <<>>, DeleteErr(bridge_types, name))
    /\ UNCHANGED external_initiators
    /\ BrFrame

DeleteExternalInitiator ==
  \E name \in Names :
    /\ external_initiators' = Deleted(external_initiators, name)
    /\ blast' = BridgeCall("DeleteExternalInitiator", name, "none", <<>>,
                           DeleteErr(external_initiators, name))
    /\ UNCHANGED bridge_types
    /\ BrFrame

InitBridges ==
  /\ NewMaster
  /\ store = StoreNone
  /\ legacy = LegacyPartial
  /\ TxInit
  /\ LockInit
  /\ PsNew
  /\ p2pRows = {}
  /\ BrNew
  /\ bridge_types \in SUBSET Names
  /\ external_initiators \in SUBSET Names

NextBridges ==
  \/ CreateBridgeType
  \/ ExternalInitiators
  \/ CreateExternalInitiator
  \/ DeleteBridgeType
  \/ DeleteExternalInitiator

SpecBridges == InitBridges /\ [][NextBridges]_vars

\* ------------------------------------------------ properties of SpecLock
\* The caller is in its critical section: between the return of lock.Lock()
\* and the deferred lock.Unlock().
InCS(c) == pc[c] \in {"locked", "store"}
Returns(c, op) == pc[c] = "store" /\ pc'[c] = "idle" /\ job[c].op = op
Mutates(c, op) == pc[c] = "locked" /\ pc'[c] = "store" /\ job[c].op = op

\* C21: under the exclusive lock no reader observes an intermediate ring: no
\* reader has read, under the shared lock, a ring that Migrate has merged
\* only in part.
C21_NoIntermediateRingRead == ~(seen.read /\ seen.partly)

\* C21, the lock discipline itself: with concurrent callers of Unlock,
\* Migrate, safeAddKey and safeRemoveKey and a reader under the shared lock,
\* at most one mutating call is in its critical section, it holds the
\* exclusive lock from before its first access to the guarded state until its
\* return (after the store round trip and the undo), no reader holds the lock
\* meanwhile, and what a reader has read was never read while a mutating call
\* was in flight; the guarded state changes only in steps of the holder of
\* the lock.
C21_LockDiscipline ==
  [][/\ \A c, d \in Callers : (InCS(c) /\ InCS(d)) => c = d
     /\ \A c \in Callers : InCS(c) => (mu.w = c /\ mu.r = {})
     /\ \A r \in Readers : pc[r] \in {"rlocked", "read"} => (r \in mu.r /\ mu.w = NoProc)
     /\ seen'.read => ~seen'.inFlight
     /\ <<keyRing, keyStates, password, store>>' # <<keyRing, keyStates, password, store>>
          => (mu.w # NoProc /\ InCS(mu.w) /\ mu.r = {})]_vars

\* A safeAddKey whose save fails has inserted its key and not yet undone it,
\* the other caller waits for the lock, and the reader has read the ring.
C21_Witness ==
  \E c, d \in Callers :
    /\ c # d
    /\ pc[c] = "store" /\ job[c].op = "safeAddKey" /\ job[c].r.err # Nil
    /\ Contents(keyRing) # Contents(job[c].r.keyRing)
    /\ pc[d] = "Lock"
    /\ seen.read

\* C27: a Migrate that finds the keystore locked returns ErrLocked having
\* fetched no legacy key, added no key and issued no save, and its return
\* releases the exclusive lock.
C27_LockedMigrateReleases ==
  [][\A c \in Callers :
       /\ (Mutates(c, "Migrate") /\ password = "") => keyRing' = keyRing
       /\ (Returns(c, "Migrate") /\ password = "")
            => /\ ret'[c].err = "ErrLocked"
               /\ job[c].r.log = <<>>
               /\ <<keyRing, keyStates, password, store, legacy>>'
                    = <<keyRing, keyStates, password, store, legacy>>
               /\ mu'.w = NoProc]_vars

\* A Migrate returned ErrLocked and an Unlock, which took the lock after it,
\* loaded the ring.
C27_Witness ==
  \E c, d \in Callers :
    /\ ret[c].op = "Migrate" /\ ret[c].err = "ErrLocked"
    /\ ret[d].op = "Unlock" /\ ret[d].err = Nil /\ ret[d].loaded
    /\ password # ""
    /\ mu.w = NoProc

\* The store holds a blob that the password decrypts.
Decryptable(st, p) ==
  /\ getEncryptedKeyRing(st, "none").err = Nil
  /\ Decrypt(getEncryptedKeyRing(st, "none").ekr, p).err = Nil

\* C29: once an Unlock has succeeded, an Unlock of any caller with any
\* password makes no store call and leaves the ring, the key states and the
\* password as they are; an Unlock that loads and commits finds the keystore
\* locked, so at most one does; and every Unlock(p) on a store whose blob p
\* decrypts, with no failing store call, returns success if it is the first
\* or repeats the password.
C29_OneUnlockLoads ==
  [][/\ \A c \in Callers :
          /\ (Mutates(c, "Unlock") /\ password # "") => keyRing' = keyRing
          /\ (Returns(c, "Unlock") /\ password # "")
               => /\ job[c].r.log = <<>>
                  /\ <<keyRing, keyStates, password, store>>'
                       = <<keyRing, keyStates, password, store>>
          /\ (Returns(c, "Unlock") /\ ret'[c].err = Nil /\ ret'[c].loaded)
               => (password = "" /\ password' = job[c].p)
          /\ (Returns(c, "Unlock") /\ job[c].fail = "none" /\ Decryptable(store, job[c].p)
                /\ password \in {"", job[c].p})
               => ret'[c].err = Nil
     /\ Cardinality({c \in Callers :
                       ret'[c].op = "Unlock" /\ ret'[c].err = Nil /\ ret'[c].loaded}) <= 1]_vars

\* Two callers called Unlock with the same password at the same time, both
\* returned success, and one of them loaded the ring.
C29_Witness ==
  \E c, d \in Callers :
    /\ c # d
    /\ ret[c].op = "Unlock" /\ ret[c].err = Nil /\ ret[c].loaded
    /\ ret[d].op = "Unlock" /\ ret[d].err = Nil /\ ~ret[d].loaded
    /\ ret[d].contended
    /\ ret[c].p = ret[d].p

\* ---------------------------------------------- properties of SpecPstore
\* C30: shutdown of the peerstore wrapper.  After a successful Start, Close
\* cancels the context before it waits, closes the underlying peerstore only
\* when dbLoop has exited, and returns at last; once it has returned dbLoop
\* stays exited and no WriteToDB changes the rows.  A Start whose readFromDB
\* fails starts no dbLoop.
C30_Shutdown ==
  /\ [](closer \in {"wait", "close", "returned"} => ctxDone)
  /\ []((closer \in {"close", "returned"} \/ pstoreClosed) => (chDone /\ loop = "exited"))
  /\ [][closer = "returned" => (loop' = "exited" /\ p2pRows' = p2pRows)]_vars
  /\ [][(once = "Unstarted" /\ pslast'.op = "Start" /\ pslast'.err # Nil)
          => (loop = "none" /\ loop' = "none")]_vars
  /\ ((closer = "cancel" /\ loop # "none") ~> (closer = "returned"))

\* Close has returned after a Start that read rows and a WriteToDB that wrote
\* the addresses of the peerstore: the loop has exited, the peerstore is closed.
C30_Witness ==
  /\ closer = "returned"
  /\ pstoreClosed
  /\ loop = "exited"
  /\ ctxDone
  /\ getPeers(p2pRows) = Addrs
  /\ peers = Addrs

\* The step is a WriteToDB of dbLoop.
Wrote == loop = "write" /\ loop' = "select"
OtherRows(rows) == {r \in rows : r.PeerID # peerID}

\* C31: WriteToDB is an all-or-nothing replacement: after a success the rows
\* of this peerID are the addresses of the peerstore, after an error they are
\* the rows before, the rows of other peerIDs are never changed, and a
\* WriteToDB of a peerstore with no addresses that the database does not fail
\* succeeds and leaves no row of this peerID.
C31_AllOrNothingReplacement ==
  [][Wrote =>
       /\ pslast'.err = Nil => getPeers(p2pRows') = peers
       /\ pslast'.err # Nil => p2pRows' = p2pRows
       /\ OtherRows(p2pRows') = OtherRows(p2pRows)
       /\ (peers = {} /\ pslast'.fault = "none")
            => (pslast'.err = Nil /\ getPeers(p2pRows') = {})]_vars

\* C31, without the case of the empty peerstore: what holds of every
\* WriteToDB.
C31_ReplacementOrUnchanged ==
  [][Wrote =>
       /\ pslast'.err = Nil => (getPeers(p2pRows') = peers /\ peers # {})
       /\ pslast'.err # Nil => p2pRows' = p2pRows
       /\ OtherRows(p2pRows') = OtherRows(p2pRows)
       /\ (peers = {} /\ getPeers(p2pRows) # {})
            => (pslast'.err # Nil /\ getPeers(p2pRows') # {})]_vars

\* A WriteToDB of a peerstore without addresses has failed with rows of this
\* peerID in the table.
C31_Witness ==
  /\ pslast.op = "WriteToDB"
  /\ pslast.fault = "none"
  /\ pslast.err # Nil
  /\ peers = {}
  /\ getPeers(p2pRows) # {}
  /\ loop = "select"

\* --------------------------------------------- properties of SpecBridges
\* The calls of the bridges ORM that run their statements in Transaction.
InTransaction == {"CreateBridgeType", "ExternalInitiators", "CreateExternalInitiator"}

\* C32: every statement issued inside a Transaction callback of
\* CreateBridgeType, ExternalInitiators and CreateExternalInitiator is
\* executed against the transaction handle passed to the callback, so that a
\* call whose transaction is rolled back leaves the tables as they were.
C32_StatementsUseTransactionHandle ==
  [][blast'.op \in InTransaction =>
       /\ \A i \in DOMAIN blast'.stmts : blast'.stmts[i].handle = "q"
       /\ blast'.err # Nil
            => <<bridge_types, external_initiators>>' = <<bridge_types, external_initiators>>]_vars

\* C32 for CreateBridgeType alone, whose statement is prepared on q.
C32_CreateBridgeTypeInTransaction ==
  [][blast'.op = "CreateBridgeType" =>
       /\ \A i \in DOMAIN blast'.stmts : blast'.stmts[i].handle = "q"
       /\ blast'.err # Nil => bridge_types' = bridge_types
       /\ blast'.err = Nil => blast'.name \in bridge_types']_vars

\* CreateExternalInitiator returned the error of the commit and the external
\* initiator is in the table.
C32_Witness ==
  /\ blast.op = "CreateExternalInitiator"
  /\ blast.fault = "commit"
  /\ blast.err # Nil
  /\ blast.name \in external_initiators

====
